---- MODULE Spec2Model ----
(***************************************************************************)
(* aiops-data-collector: the collection-and-forwarding engine.             *)
(*                                                                         *)
(* Two entry points are modelled in one state machine:                     *)
(*   - workers.py: download_job, which runs worker_clustering or           *)
(*     worker_topology (chosen by target_worker.NAME);                     *)
(*   - collector/topological_inventory.py: worker, which runs              *)
(*     topological_inventory_data once per tenant.                         *)
(* One step of the machine is one HTTP attempt (whose outcome and response *)
(* page the environment chooses) or the code between two HTTP calls of one *)
(* function.  Rows are Python dicts: functions from field names to values. *)
(***************************************************************************)
EXTENDS Integers, Sequences, FiniteSets, TLC

\* ---------------------------------------------------------------- bounds
\* The longest chain of pages the service serves for one paginated fetch.
MaxPages == 2
\* The most rows on one page.
MaxRows == 2
\* The most rows of entity collections the service serves within one job.
MaxData == 3
\* The most tenants the tenant-discovery endpoint lists.
MaxTenants == 2

\* ------------------------------------------------------- program constants
MAX_RETRIES == 3

VARIABLES
    NAME,         \* the pipeline: target_worker.NAME, or "worker" (collector)
    ALL_TENANTS,  \* env.ALL_TENANTS
    APP_CONFIG,   \* the ordered entity names of the query plan
    source_id,    \* the job's source id ("" when the caller gave none)
    pc,           \* the position of the running code
    runner,       \* the thread that executes the pipeline
    threads,      \* the targets of the threads download_job has started
    call,         \* the HTTP call a retry wrapper is executing
    attempt,      \* the retry wrapper's loop variable
    rstate,       \* the retry wrapper: "idle", "pending", "returned", "raised"
    resp,         \* the response the retry wrapper returned last
    all_data,     \* all_data of the paginated fetch in progress
    sub_data,     \* all_data of the sub-collection query in progress
    item,         \* the index of the parent row the sub-collection query is at
    retv,         \* the value the callee returned last
    fetch,        \* the arguments of the _collect_data call in progress
    data,         \* data['data']: entity name -> rows
    ent,          \* the index in APP_CONFIG of the entity being queried
    tenants,      \* worker: the list of Tenant tuples
    tix,          \* worker: the index of the tenant being processed
    METRICS,      \* the prometheus counters
    escaped,      \* the exception that left the entry point, or "none"
    processed,    \* the account numbers passed to utils.set_processed, in order
    pageNo,       \* service: pages served in the current chain of pages
    budget,       \* service: rows it may still serve in this job
    outcomes,     \* history: the per-attempt outcomes of the current call
    served,       \* history: the rows served in the current chain of pages
    succ0,        \* history: get_successes when the current chain began
    tries,        \* history: the HTTP attempts made for the chain of pages of the call
    fetchedFor,   \* history: per row served to the sub-collection query, the parent id in its URL
    hist,         \* history of the current job/tenant pipeline
    log           \* history: one summary per finished tenant pipeline of worker

vars == <<NAME, ALL_TENANTS, APP_CONFIG, source_id, pc, runner, threads, call,
          attempt, rstate, resp, all_data, sub_data, item, retv, data, ent,
          tenants, tix, METRICS, escaped, processed, pageNo, budget, outcomes,
          served, succ0, tries, fetchedFor, hist, fetch, log>>

cfgVars == <<NAME, ALL_TENANTS, APP_CONFIG>>
httpVars == <<call, attempt, rstate, outcomes, tries>>
chainVars == <<served, pageNo, succ0>>
collectorVars == <<tenants, tix, processed, fetch, log>>

\* ------------------------------------------------------------ configuration
\* The query specifications (topological_queries.yml), by entity name.
QUERIES ==
    [container_nodes |->
        [main_collection |-> "container_nodes", sub_collection |-> "",
         foreign_key |-> ""],
     container_nodes_tags |->
        [main_collection |-> "container_nodes", sub_collection |-> "tags",
         foreign_key |-> "container_nodes_id"],
     nodes |->
        [main_collection |-> "container_nodes", sub_collection |-> "",
         foreign_key |-> ""]]

\* The query plans a deployment is configured with (topological_app_config.yml):
\* none, a main collection, a main collection and a sub-collection of it.
Configs ==
    { <<>>, <<"container_nodes">>, <<"container_nodes", "container_nodes_tags">> }

\* The query plans a configuration file can hold in which every sub-collection
\* follows a query of its main collection: those above, and one whose main
\* collection is queried by an entity of another name.
Plans == Configs \cup { <<"nodes", "container_nodes_tags">> }

\* ---------------------------------------------------------------- helpers
Min(a, b) == IF a < b THEN a ELSE b

\* Python truthiness: of a number (0 is false) and of a string ("" is false).
TruthyNum(v) == v # 0
TruthyStr(s) == s # ""

\* base64.b64encode(json.dumps(rh_identity).encode()): an encoding, kept apart
\* from the value it encodes.
B64(v) == <<"b64", v>>

rh_identity(account_number) == [identity |-> [account_number |-> account_number]]

\* The job's acct_info: its account and the identity header value made for it.
acct_info == [account_id |-> 0, b64_identity |-> B64(rh_identity(0))]

b64_identity == acct_info.b64_identity

\* The id download_job generates when the caller gave none: str(uuid4()).
uuid4 == "uuid4"

create_tenant(account_number) ==
    [account_number |-> account_number,
     headers |-> ("x-rh-identity" :> B64(rh_identity(account_number)))]

NoHeaders == <<>>
NoBody == [id |-> "", data |-> <<>>]
NoResp == [data |-> <<>>, next |-> FALSE, attempt |-> 0]
NoCall == [method |-> "", kind |-> "", item |-> 0, headers |-> NoHeaders,
           json |-> NoBody, ret |-> ""]

inc(m, name) == [m EXCEPT ![name] = @ + 1]

\* The history h after an entity's query resolved to rows.
ZeroRows(h, rows) == [h EXCEPT !.empty = @ \/ rows = <<>>]

NoFetch == [kind |-> "", item |-> 0, headers |-> NoHeaders]

\* The history of one job/tenant pipeline: POST calls and POST attempts made,
\* whether an entity resolved to zero rows, whether a fetch exhausted its
\* retries and the rows of the pages it had fetched by then, get_errors and
\* post_errors at the start, and per entity the rows the service has served
\* to its query.
NoHist == [posts |-> 0, postAttempts |-> 0, empty |-> FALSE, failed |-> FALSE,
           partial |-> <<>>, errors0 |-> 0, post_errors0 |-> 0, rows |-> <<>>]

\* The history h after the service served the rows of a page to the query of
\* entity e.
Fetched(h, e, rows) ==
    [h EXCEPT !.rows =
        (e :> ((IF e \in DOMAIN h.rows THEN h.rows[e] ELSE <<>>) \o rows))
        @@ h.rows]

\* ------------------------------------------------------------- the service
\* The k-th row (from 0) of a collection: tenants carry their account number,
\* other rows their id.
Row(kind, k) ==
    IF kind = "tenants" THEN ("external_tenant" :> k) ELSE ("id" :> k)

\* The rows the service may still put on one page.
PageRoom(kind) ==
    IF kind = "tenants" THEN Min(MaxRows, MaxTenants - Len(served))
    ELSE Min(MaxRows, budget)

\* A page of n rows following the rows already served in this chain.
Page(kind, n, nx, att) ==
    [data |-> [i \in 1..n |-> Row(kind, Len(served) + i - 1)],
     next |-> nx, attempt |-> att]

\* The service answers the attempt in flight with a page (a GET of a
\* collection), or with a body the code does not look into.
Respond(ok, n, nx) ==
    /\ outcomes' = Append(outcomes, IF ok THEN "ok" ELSE "fail")
    /\ IF ok /\ call.kind \in {"tenants", "main", "sub"}
       THEN /\ resp' = Page(call.kind, n, nx, attempt)
            /\ served' = served \o resp'.data
            /\ pageNo' = pageNo + 1
            /\ budget' = IF call.kind = "tenants" THEN budget ELSE budget - n
            /\ fetchedFor' = IF call.kind = "sub"
                             THEN fetchedFor \o [i \in 1..n |-> call.item]
                             ELSE fetchedFor
       ELSE /\ resp' = IF ok THEN [NoResp EXCEPT !.attempt = attempt] ELSE resp
            /\ UNCHANGED <<served, pageNo, budget, fetchedFor>>

\* One attempt of the retry loop: `for attempt in range(MAX_RETRIES)`, return
\* on the first response that raise_for_status accepts, raise after the loop.
RetryLoop(ok, n, nx, limit) ==
    /\ pc = "http"
    /\ rstate = "pending"
    /\ attempt < limit
    /\ n \in 0..(IF ok /\ call.method = "get" /\ call.kind # "source"
                 THEN PageRoom(call.kind) ELSE 0)
    /\ nx => (ok /\ call.kind \in {"tenants", "main", "sub"}
              /\ pageNo + 1 < MaxPages)
    /\ Respond(ok, n, nx)
    /\ hist' = IF call.method = "post"
               THEN [hist EXCEPT !.postAttempts = @ + 1]
               ELSE IF ~ok /\ attempt + 1 >= limit /\ call.kind # "source"
               THEN [hist EXCEPT !.failed = TRUE, !.partial = served]
               ELSE IF ok /\ call.kind \in {"main", "sub"}
               THEN Fetched(hist, APP_CONFIG[ent], resp'.data)
               ELSE hist
    /\ IF ok
       THEN /\ rstate' = "returned"
            /\ pc' = call.ret
            /\ UNCHANGED attempt
       ELSE /\ attempt' = attempt + 1
            /\ IF attempt + 1 < limit
               THEN UNCHANGED <<rstate, pc>>
               ELSE /\ rstate' = "raised"
                    /\ pc' = call.ret
    /\ UNCHANGED <<cfgVars, source_id, runner, threads, call, all_data,
                   sub_data, item, retv, data, ent, collectorVars, METRICS,
                   escaped, succ0>>
    /\ tries' = IF call.kind \in {"tenants", "main", "sub"}
                THEN tries + 1 ELSE tries

\* _retryable looping once more: `range(MAX_RETRIES + 1)`.
_retryable_one_more ==
    /\ NAME \in {"worker_clustering", "worker_topology"}
    /\ \E ok \in BOOLEAN, n \in 0..MaxRows, nx \in BOOLEAN :
          RetryLoop(ok, n, nx, MAX_RETRIES + 1)

\* workers.py: _retryable.
_retryable ==
    /\ NAME \in {"worker_clustering", "worker_topology"}
    /\ \E ok \in BOOLEAN, n \in 0..MaxRows, nx \in BOOLEAN :
          RetryLoop(ok, n, nx, MAX_RETRIES)

\* collector/utils.py: retryable, the same loop raising RetryFailedError.
retryable ==
    /\ NAME = "worker"
    /\ \E ok \in BOOLEAN, n \in 0..MaxRows, nx \in BOOLEAN :
          RetryLoop(ok, n, nx, MAX_RETRIES)

\* The caller starts a call of the retry wrapper.  A call that follows the
\* last response's next pointer continues that response's chain of pages.
Request(method, kind, it, headers, json, ret) ==
    /\ tries' = IF call.kind = kind /\ call.item = it THEN tries ELSE 0
    /\ call' = [method |-> method, kind |-> kind, item |-> it,
                headers |-> headers, json |-> json, ret |-> ret]
    /\ attempt' = 0
    /\ rstate' = "pending"
    /\ outcomes' = <<>>
    /\ pc' = "http"

\* The caller has taken the result of the retry wrapper: the wrapper's locals
\* and its result are gone.
Consumed ==
    /\ call' = NoCall
    /\ attempt' = 0
    /\ rstate' = "idle"
    /\ outcomes' = <<>>
    /\ tries' = 0
    /\ resp' = NoResp

\* The first page of a chain of pages is requested.
NewChain(successes) ==
    /\ served' = <<>>
    /\ pageNo' = 0
    /\ succ0' = successes

\* ------------------------------------------------------------- workers.py
\* The bodies a source URL answers with: one custom_parser.parse converts to
\* the downstream format, one it cannot convert (it raises ParseFailed).
Contents == {"content", "garbage"}

Parsable(content) == content = "content"

\* custom_parser.parse: the payload converted to the downstream format.
parse(content) == [parsed |-> content]

\* The pipeline returned to download_job, which goes on to start its thread.
PipelineReturns == pc' = "Thread"

\* download_job, up to the evaluation of `thread_mappings[name](info)`: the
\* selected worker is called here, by the thread that called download_job.
download_job ==
    /\ pc = "download_job"
    /\ source_id' = IF TruthyStr(source_id) THEN source_id ELSE uuid4
    /\ pc' = NAME
    /\ UNCHANGED <<cfgVars, runner, threads, httpVars, resp, all_data,
                   sub_data, item, retv, data, ent, collectorVars, METRICS,
                   escaped, budget, chainVars, fetchedFor, hist>>

\* download_job: `Thread(target=<the worker's return value>)`, `thread.start()`.
Thread_start ==
    /\ pc = "Thread"
    /\ threads' = Append(threads, [target |-> "None", alive |-> TRUE])
    /\ pc' = "done"
    /\ UNCHANGED <<cfgVars, source_id, runner, httpVars, resp, all_data,
                   sub_data, item, retv, data, ent, collectorVars, METRICS,
                   escaped, budget, chainVars, fetchedFor, hist>>

\* The started thread runs its target, None: it does nothing and ends.
Thread_run ==
    /\ \E i \in DOMAIN threads :
          /\ threads[i].alive
          /\ threads' = [threads EXCEPT ![i].alive = FALSE]
    /\ UNCHANGED <<cfgVars, source_id, pc, runner, httpVars, resp, all_data,
                   sub_data, item, retv, data, ent, collectorVars, METRICS,
                   escaped, budget, chainVars, fetchedFor, hist>>

\* worker_clustering: count the GET and fetch the source.
worker_clustering ==
    /\ pc = "worker_clustering"
    /\ METRICS' = inc(METRICS, "gets")
    /\ Request("get", "source", 0, NoHeaders, NoBody, "worker_clustering_get")
    /\ UNCHANGED <<cfgVars, source_id, runner, threads, resp, all_data,
                   sub_data, item, retv, data, ent, collectorVars, escaped,
                   budget, chainVars, fetchedFor, hist>>

\* worker_clustering forwarding after a failed GET too (no `return` in the
\* except clause of the GET).
worker_clustering_get_no_return ==
    /\ pc = "worker_clustering_get"
    /\ METRICS' = inc(inc(METRICS, IF rstate = "raised" THEN "get_errors"
                                                         ELSE "get_successes"),
                      "posts")
    /\ Request("post", "post", 0,
               ("source_id" :> source_id) @@ ("x-rh-identity" :> b64_identity),
               parse("content"), "worker_clustering_post")
    /\ hist' = [hist EXCEPT !.posts = @ + 1]
    /\ UNCHANGED <<cfgVars, source_id, runner, threads, resp, all_data,
                   sub_data, item, retv, data, ent, collectorVars, escaped,
                   budget, chainVars, fetchedFor>>

\* worker_clustering after the GET: give up, or parse resp.content and
\* forward.  `custom_parser.parse(file_obj)` is evaluated after posts.inc(),
\* inside the try whose only except clause is for requests.HTTPError: what it
\* raises leaves the worker.
worker_clustering_get ==
    /\ pc = "worker_clustering_get"
    /\ IF rstate = "raised"
       THEN /\ METRICS' = inc(METRICS, "get_errors")
            /\ PipelineReturns
            /\ UNCHANGED <<httpVars, hist, escaped>>
       ELSE /\ METRICS' = inc(inc(METRICS, "get_successes"), "posts")
            /\ \E content \in Contents :
                  IF Parsable(content)
                  THEN /\ Request("post", "post", 0,
                                  ("source_id" :> source_id) @@
                                  ("x-rh-identity" :> b64_identity),
                                  parse(content), "worker_clustering_post")
                       /\ hist' = [hist EXCEPT !.posts = @ + 1]
                       /\ UNCHANGED escaped
                  ELSE /\ pc' = "raised"
                       /\ escaped' = "ParseFailed"
                       /\ UNCHANGED <<httpVars, hist>>
    /\ UNCHANGED <<cfgVars, source_id, runner, threads, resp, all_data,
                   sub_data, item, retv, data, ent, collectorVars,
                   budget, chainVars, fetchedFor>>

\* worker_clustering after the POST.
worker_clustering_post ==
    /\ pc = "worker_clustering_post"
    /\ METRICS' = inc(METRICS, IF rstate = "raised" THEN "post_errors"
                                                     ELSE "post_successes")
    /\ PipelineReturns
    /\ UNCHANGED <<cfgVars, source_id, runner, threads, httpVars, resp,
                   all_data, sub_data, item, retv, data, ent, collectorVars,
                   escaped, budget, chainVars, fetchedFor, hist>>

\* worker_topology: one turn of `for entity in topology_info['queries'].keys()`
\* with the payload d (h: the history so far), or the forwarding POST after the
\* last entity.  `data['data'][main_collection]`, the argument of
\* query_sub_collection, is evaluated outside the try: a KeyError leaves the
\* worker.
worker_topology_loop(k, d, h) ==
    IF k > Len(APP_CONFIG)
    THEN /\ METRICS' = inc(METRICS, "posts")
         /\ Request("post", "post", 0, ("x-rh-identity" :> b64_identity),
                    [id |-> source_id, data |-> d], "worker_topology_post")
         /\ hist' = [h EXCEPT !.posts = @ + 1]
         /\ UNCHANGED <<ent, escaped>>
    ELSE /\ METRICS' = inc(METRICS, "gets")
         /\ ent' = k
         /\ hist' = h
         /\ UNCHANGED httpVars
         /\ IF ~TruthyStr(QUERIES[APP_CONFIG[k]].sub_collection)
            THEN pc' = "query_main_collection" /\ UNCHANGED escaped
            ELSE IF QUERIES[APP_CONFIG[k]].main_collection \in DOMAIN d
            THEN pc' = "query_sub_collection" /\ UNCHANGED escaped
            ELSE pc' = "raised" /\ escaped' = "KeyError"

\* worker_topology, up to the first query.
worker_topology ==
    /\ pc = "worker_topology"
    /\ data' = <<>>
    /\ worker_topology_loop(1, <<>>, hist)
    /\ UNCHANGED <<cfgVars, source_id, runner, threads, resp, all_data,
                   sub_data, item, retv, collectorVars, budget, chainVars,
                   fetchedFor>>

\* query_main_collection: the first GET, without headers.
query_main_collection ==
    /\ pc = "query_main_collection"
    /\ Request("get", "main", 0, NoHeaders, NoBody, "query_main_collection_page")
    /\ NewChain(METRICS.get_successes)
    /\ all_data' = <<>>
    /\ UNCHANGED <<cfgVars, source_id, runner, threads, resp, sub_data, item,
                   retv, data, ent, collectorVars, METRICS, escaped, budget,
                   fetchedFor, hist>>

\* query_main_collection with `all_data = out['data']` on the later pages too.
query_main_collection_page_assign ==
    /\ pc = "query_main_collection_page"
    /\ IF rstate = "raised"
       THEN /\ pc' = "worker_topology_except"
            /\ all_data' = <<>>
            /\ Consumed
            /\ UNCHANGED <<METRICS, retv>>
       ELSE /\ all_data' = resp.data
            /\ METRICS' = inc(METRICS, "get_successes")
            /\ IF resp.next
               THEN /\ Request("get", "main", 0, NoHeaders, NoBody,
                               "query_main_collection_page")
                    /\ UNCHANGED <<retv, resp>>
               ELSE /\ retv' = all_data'
                    /\ pc' = "worker_topology_store"
                    /\ Consumed
    /\ UNCHANGED <<cfgVars, source_id, runner, threads, sub_data, item,
                   data, ent, collectorVars, escaped, budget, chainVars,
                   fetchedFor, hist>>

\* query_main_collection after a page: an HTTPError goes to the caller; else
\* append the page and follow links.next, or return.
query_main_collection_page ==
    /\ pc = "query_main_collection_page"
    /\ IF rstate = "raised"
       THEN /\ pc' = "worker_topology_except"
            /\ all_data' = <<>>
            /\ Consumed
            /\ UNCHANGED <<METRICS, retv>>
       ELSE /\ all_data' = all_data \o resp.data
            /\ METRICS' = inc(METRICS, "get_successes")
            /\ IF resp.next
               THEN /\ Request("get", "main", 0, NoHeaders, NoBody,
                               "query_main_collection_page")
                    /\ UNCHANGED <<retv, resp>>
               ELSE /\ retv' = all_data'
                    /\ pc' = "worker_topology_store"
                    /\ Consumed
    /\ UNCHANGED <<cfgVars, source_id, runner, threads, sub_data, item,
                   data, ent, collectorVars, escaped, budget, chainVars,
                   fetchedFor, hist>>

\* The main-collection rows a sub-collection query of entity k iterates.
collection(k) == data[QUERIES[APP_CONFIG[k]].main_collection]

\* query_sub_collection: `row[1][foreign_key] = item['id']` on every row of a page.
stamp(page_data, foreign_key, id) ==
    [i \in 1..Len(page_data) |-> (foreign_key :> id) @@ page_data[i]]

\* query_sub_collection: the first GET for the first parent, without headers.
query_sub_collection ==
    /\ pc = "query_sub_collection"
    /\ sub_data' = <<>>
    /\ fetchedFor' = <<>>
    /\ IF collection(ent) = <<>>
       THEN /\ retv' = <<>>
            /\ pc' = "worker_topology_store"
            /\ UNCHANGED <<httpVars, chainVars, item>>
       ELSE /\ item' = 1
            /\ Request("get", "sub", collection(ent)[1]["id"], NoHeaders,
                       NoBody, "query_sub_collection_page")
            /\ NewChain(METRICS.get_successes)
            /\ UNCHANGED retv
    /\ UNCHANGED <<cfgVars, source_id, runner, threads, resp, all_data, data,
                   ent, collectorVars, METRICS, escaped, budget, hist>>

\* query_sub_collection catching the HTTPError of a parent and returning the
\* rows it has.
query_sub_collection_page_partial ==
    /\ pc = "query_sub_collection_page"
    /\ IF rstate = "raised"
       THEN /\ retv' = sub_data
            /\ pc' = "worker_topology_store"
            /\ Consumed
            /\ UNCHANGED <<chainVars, METRICS, sub_data, item>>
       ELSE /\ sub_data' = sub_data \o
                    stamp(resp.data, QUERIES[APP_CONFIG[ent]].foreign_key,
                          collection(ent)[item]["id"])
            /\ METRICS' = inc(METRICS, "get_successes")
            /\ IF resp.next
               THEN /\ Request("get", "sub", collection(ent)[item]["id"],
                               NoHeaders, NoBody, "query_sub_collection_page")
                    /\ UNCHANGED <<chainVars, retv, item, resp>>
               ELSE IF item < Len(collection(ent))
               THEN /\ item' = item + 1
                    /\ Request("get", "sub", collection(ent)[item + 1]["id"],
                               NoHeaders, NoBody, "query_sub_collection_page")
                    /\ NewChain(METRICS'.get_successes)
                    /\ UNCHANGED <<retv, resp>>
               ELSE /\ retv' = sub_data'
                    /\ pc' = "worker_topology_store"
                    /\ Consumed
                    /\ UNCHANGED <<chainVars, item>>
    /\ UNCHANGED <<cfgVars, source_id, runner, threads, all_data, data,
                   ent, collectorVars, escaped, budget, fetchedFor, hist>>

\* query_sub_collection after a page: stamp and append its rows, then follow
\* links.next, go to the next parent, or return.
query_sub_collection_page ==
    /\ pc = "query_sub_collection_page"
    /\ IF rstate = "raised"
       THEN /\ pc' = "worker_topology_except"
            /\ sub_data' = <<>>
            /\ Consumed
            /\ UNCHANGED <<chainVars, METRICS, retv, item>>
       ELSE /\ sub_data' = sub_data \o
                    stamp(resp.data, QUERIES[APP_CONFIG[ent]].foreign_key,
                          collection(ent)[item]["id"])
            /\ METRICS' = inc(METRICS, "get_successes")
            /\ IF resp.next
               THEN /\ Request("get", "sub", collection(ent)[item]["id"],
                               NoHeaders, NoBody, "query_sub_collection_page")
                    /\ UNCHANGED <<chainVars, retv, item, resp>>
               ELSE IF item < Len(collection(ent))
               THEN /\ item' = item + 1
                    /\ Request("get", "sub", collection(ent)[item + 1]["id"],
                               NoHeaders, NoBody, "query_sub_collection_page")
                    /\ NewChain(METRICS'.get_successes)
                    /\ UNCHANGED <<retv, resp>>
               ELSE /\ retv' = sub_data'
                    /\ pc' = "worker_topology_store"
                    /\ Consumed
                    /\ UNCHANGED <<chainVars, item>>
    /\ UNCHANGED <<cfgVars, source_id, runner, threads, all_data, data,
                   ent, collectorVars, escaped, budget, fetchedFor, hist>>

\* worker_topology: `data['data'][entity] = all_data`, then the next entity.
worker_topology_store ==
    /\ pc = "worker_topology_store"
    /\ data' = (APP_CONFIG[ent] :> retv) @@ data
    /\ worker_topology_loop(ent + 1, data',
                            ZeroRows(hist, retv))
    /\ UNCHANGED <<cfgVars, source_id, runner, threads, resp, all_data,
                   sub_data, item, retv, collectorVars, budget, chainVars,
                   fetchedFor>>

\* worker_topology: `except requests.HTTPError` around either query.
worker_topology_except ==
    /\ pc = "worker_topology_except"
    /\ METRICS' = inc(METRICS, "get_errors")
    /\ PipelineReturns
    /\ UNCHANGED <<cfgVars, source_id, runner, threads, httpVars, resp,
                   all_data, sub_data, item, retv, data, ent, collectorVars,
                   escaped, budget, chainVars, fetchedFor, hist>>

\* worker_topology after the POST.
worker_topology_post ==
    /\ pc = "worker_topology_post"
    /\ METRICS' = inc(METRICS, IF rstate = "raised" THEN "post_errors"
                                                     ELSE "post_successes")
    /\ PipelineReturns
    /\ UNCHANGED <<cfgVars, source_id, runner, threads, httpVars, resp,
                   all_data, sub_data, item, retv, data, ent, collectorVars,
                   escaped, budget, chainVars, fetchedFor, hist>>

\* ------------------------------------- collector/topological_inventory.py
\* _update_fk: set the foreign key on every row, unless the name or the id is
\* false.
_update_fk(page_data, fk_name, fk_id) ==
    IF ~(TruthyStr(fk_name) /\ TruthyNum(fk_id))
    THEN page_data
    ELSE [i \in 1..Len(page_data) |-> (fk_name :> fk_id) @@ page_data[i]]

\* topological_inventory_data's parameter `headers`: worker passes tenant.headers.
headers == tenants[tix].headers

\* _collect_data: count the GET and request the first page.
_collect_data ==
    /\ pc = "_collect_data"
    /\ METRICS' = inc(METRICS, "gets")
    /\ Request("get", fetch.kind, fetch.item, fetch.headers, NoBody,
               "_collect_data_page")
    /\ NewChain(METRICS.get_successes)
    /\ all_data' = <<>>
    /\ UNCHANGED <<cfgVars, source_id, runner, threads, resp, sub_data, item,
                   retv, data, ent, collectorVars, escaped, budget, fetchedFor,
                   hist>>

\* Where _collect_data returns to.
_collect_data_return ==
    CASE fetch.kind = "tenants" -> "worker_tenants"
      [] fetch.kind = "main" -> "topological_inventory_data_result"
      [] OTHER -> "_query_sub_collection_item"

\* _collect_data catching the RetryFailedError and returning the rows it has.
_collect_data_page_partial ==
    /\ pc = "_collect_data_page"
    /\ all_data' = IF rstate = "raised" THEN all_data ELSE all_data \o resp.data
    /\ IF rstate # "raised" /\ resp.next
       THEN /\ METRICS' = inc(inc(METRICS, "get_successes"), "gets")
            /\ Request("get", fetch.kind, fetch.item, fetch.headers,
                       NoBody, "_collect_data_page")
            /\ UNCHANGED <<retv, resp>>
       ELSE /\ METRICS' = IF rstate = "raised" THEN METRICS
                          ELSE inc(METRICS, "get_successes")
            /\ retv' = all_data'
            /\ pc' = _collect_data_return
            /\ Consumed
    /\ UNCHANGED <<cfgVars, source_id, runner, threads, sub_data, item,
                   data, ent, collectorVars, escaped, budget, chainVars,
                   fetchedFor, hist>>

\* _collect_data requesting a page again when its retries are exhausted.
_collect_data_page_retry ==
    /\ pc = "_collect_data_page"
    /\ UNCHANGED escaped
    /\ IF rstate = "raised"
       THEN /\ Request("get", fetch.kind, fetch.item, fetch.headers, NoBody,
                       "_collect_data_page")
            /\ UNCHANGED <<all_data, METRICS, retv, resp>>
       ELSE /\ all_data' = all_data \o resp.data
            /\ IF resp.next
               THEN /\ METRICS' = inc(inc(METRICS, "get_successes"), "gets")
                    /\ Request("get", fetch.kind, fetch.item, fetch.headers,
                               NoBody, "_collect_data_page")
                    /\ UNCHANGED <<retv, resp>>
               ELSE /\ METRICS' = inc(METRICS, "get_successes")
                    /\ retv' = all_data'
                    /\ pc' = _collect_data_return
                    /\ Consumed
    /\ UNCHANGED <<cfgVars, source_id, runner, threads, sub_data, item,
                   data, ent, collectorVars, budget, chainVars, fetchedFor,
                   hist>>

\* _collect_data after a page: a RetryFailedError goes up the call stack (to
\* the except of topological_inventory_data, or out of worker); else count the
\* success, append the page and follow links.next, or return.
_collect_data_page ==
    /\ pc = "_collect_data_page"
    /\ IF rstate = "raised"
       THEN /\ IF fetch.kind = "tenants"
               THEN pc' = "raised" /\ escaped' = "RetryFailedError"
               ELSE pc' = "topological_inventory_data_except"
                    /\ UNCHANGED escaped
            /\ all_data' = <<>>
            /\ Consumed
            /\ UNCHANGED <<METRICS, retv>>
       ELSE /\ all_data' = all_data \o resp.data
            /\ UNCHANGED escaped
            /\ IF resp.next
               THEN /\ METRICS' = inc(inc(METRICS, "get_successes"), "gets")
                    /\ Request("get", fetch.kind, fetch.item, fetch.headers,
                               NoBody, "_collect_data_page")
                    /\ UNCHANGED <<retv, resp>>
               ELSE /\ METRICS' = inc(METRICS, "get_successes")
                    /\ retv' = all_data'
                    /\ pc' = _collect_data_return
                    /\ Consumed
    /\ UNCHANGED <<cfgVars, source_id, runner, threads, sub_data, item,
                   data, ent, collectorVars, budget, chainVars, fetchedFor,
                   hist>>

\* _query_main_collection.
_query_main_collection ==
    /\ pc = "_query_main_collection"
    /\ fetch' = [kind |-> "main", item |-> 0, headers |-> headers]
    /\ pc' = "_collect_data"
    /\ UNCHANGED <<cfgVars, source_id, runner, threads, httpVars, resp,
                   all_data, sub_data, item, retv, data, ent, tenants, tix,
                   processed, log, METRICS, escaped, budget, chainVars,
                   fetchedFor, hist>>

\* _query_sub_collection, up to the fetch for the first parent row.  A main
\* collection missing from `data` is a KeyError, which no except catches.
_query_sub_collection ==
    /\ pc = "_query_sub_collection"
    /\ sub_data' = <<>>
    /\ fetchedFor' = <<>>
    /\ IF QUERIES[APP_CONFIG[ent]].main_collection \notin DOMAIN data
       THEN /\ pc' = "raised"
            /\ escaped' = "KeyError"
            /\ UNCHANGED <<retv, item, fetch>>
       ELSE /\ UNCHANGED escaped
            /\ IF collection(ent) = <<>>
               THEN /\ retv' = <<>>
                    /\ pc' = "topological_inventory_data_result"
                    /\ UNCHANGED <<item, fetch>>
               ELSE /\ item' = 1
                    /\ fetch' = [kind |-> "sub",
                                 item |-> collection(ent)[1]["id"],
                                 headers |-> headers]
                    /\ pc' = "_collect_data"
                    /\ UNCHANGED retv
    /\ UNCHANGED <<cfgVars, source_id, runner, threads, httpVars, resp,
                   all_data, data, ent, tenants, tix, processed, log, METRICS,
                   budget, chainVars, hist>>

\* _query_sub_collection after the fetch for one parent row: stamp and append
\* its rows, then fetch for the next parent row, or return.
_query_sub_collection_item ==
    /\ pc = "_query_sub_collection_item"
    /\ sub_data' = sub_data \o
            _update_fk(retv, QUERIES[APP_CONFIG[ent]].foreign_key,
                       collection(ent)[item]["id"])
    /\ IF item < Len(collection(ent))
       THEN /\ item' = item + 1
            /\ fetch' = [kind |-> "sub",
                         item |-> collection(ent)[item + 1]["id"],
                         headers |-> headers]
            /\ pc' = "_collect_data"
            /\ UNCHANGED retv
       ELSE /\ retv' = sub_data'
            /\ pc' = "topological_inventory_data_result"
            /\ UNCHANGED <<item, fetch>>
    /\ UNCHANGED <<cfgVars, source_id, runner, threads, httpVars, resp,
                   all_data, data, ent, tenants, tix, processed, log, METRICS,
                   escaped, budget, chainVars, fetchedFor, hist>>

\* topological_inventory_data: one turn of `for entity in APP_CONFIG` with the
\* payload d (h: the history so far), or the forwarding POST after the last
\* entity.
topological_inventory_data_loop(k, d, h) ==
    IF k > Len(APP_CONFIG)
    THEN /\ METRICS' = inc(METRICS, "posts")
         /\ Request("post", "post", 0, headers,
                    [id |-> source_id, data |-> d],
                    "topological_inventory_data_post")
         /\ hist' = [h EXCEPT !.posts = @ + 1]
         /\ UNCHANGED ent
    ELSE /\ ent' = k
         /\ pc' = IF TruthyStr(QUERIES[APP_CONFIG[k]].sub_collection)
                  THEN "_query_sub_collection" ELSE "_query_main_collection"
         /\ hist' = h
         /\ UNCHANGED <<httpVars, METRICS>>

\* topological_inventory_data, up to the first query.
topological_inventory_data ==
    /\ pc = "topological_inventory_data"
    /\ data' = <<>>
    /\ IF APP_CONFIG = <<>>
       THEN /\ pc' = "worker_after"
            /\ UNCHANGED <<httpVars, hist, METRICS, ent>>
       ELSE topological_inventory_data_loop(1, <<>>, hist)
    /\ UNCHANGED <<cfgVars, source_id, runner, threads, resp, all_data,
                   sub_data, item, retv, collectorVars, escaped, budget,
                   chainVars, fetchedFor>>

\* topological_inventory_data without `if not all_data: raise`.
topological_inventory_data_result_unchecked ==
    /\ pc = "topological_inventory_data_result"
    /\ data' = (APP_CONFIG[ent] :> retv) @@ data
    /\ topological_inventory_data_loop(ent + 1, data', ZeroRows(hist, retv))
    /\ UNCHANGED <<cfgVars, source_id, runner, threads, resp, all_data,
                   sub_data, item, retv, collectorVars, escaped, budget,
                   chainVars, fetchedFor>>

\* topological_inventory_data storing the rows under the name of the main
\* collection: `data['data'][query_spec['main_collection']] = all_data`.
topological_inventory_data_result_by_collection ==
    /\ pc = "topological_inventory_data_result"
    /\ IF retv = <<>>
       THEN /\ pc' = "topological_inventory_data_except"
            /\ hist' = ZeroRows(hist, retv)
            /\ UNCHANGED <<httpVars, METRICS, ent, data>>
       ELSE /\ data' = (QUERIES[APP_CONFIG[ent]].main_collection :> retv) @@ data
            /\ topological_inventory_data_loop(ent + 1, data',
                                               ZeroRows(hist, retv))
    /\ UNCHANGED <<cfgVars, source_id, runner, threads, resp, all_data,
                   sub_data, item, retv, collectorVars, escaped, budget,
                   chainVars, fetchedFor>>

\* topological_inventory_data after a query returned: no rows raise
\* DataMissingError, rows are stored under the entity's name.
topological_inventory_data_result ==
    /\ pc = "topological_inventory_data_result"
    /\ IF retv = <<>>
       THEN /\ pc' = "topological_inventory_data_except"
            /\ hist' = ZeroRows(hist, retv)
            /\ UNCHANGED <<httpVars, METRICS, ent, data>>
       ELSE /\ data' = (APP_CONFIG[ent] :> retv) @@ data
            /\ topological_inventory_data_loop(ent + 1, data',
                                               ZeroRows(hist, retv))
    /\ UNCHANGED <<cfgVars, source_id, runner, threads, resp, all_data,
                   sub_data, item, retv, collectorVars, escaped, budget,
                   chainVars, fetchedFor>>

\* topological_inventory_data re-raising from its except clause.
topological_inventory_data_except_reraise ==
    /\ pc = "topological_inventory_data_except"
    /\ METRICS' = inc(METRICS, "get_errors")
    /\ pc' = "raised"
    /\ escaped' = IF hist.empty THEN "DataMissingError" ELSE "RetryFailedError"
    /\ UNCHANGED <<cfgVars, source_id, runner, threads, httpVars, resp,
                   all_data, sub_data, item, retv, data, ent, collectorVars,
                   budget, chainVars, fetchedFor, hist>>

\* topological_inventory_data with `continue` for `return` in its except clause.
topological_inventory_data_except_continue ==
    /\ pc = "topological_inventory_data_except"
    /\ METRICS' = inc(METRICS, "get_errors")
    /\ IF ent < Len(APP_CONFIG)
       THEN /\ ent' = ent + 1
            /\ pc' = IF TruthyStr(QUERIES[APP_CONFIG[ent + 1]].sub_collection)
                     THEN "_query_sub_collection" ELSE "_query_main_collection"
       ELSE /\ pc' = "worker_after"
            /\ UNCHANGED ent
    /\ UNCHANGED <<cfgVars, source_id, runner, threads, httpVars, resp,
                   all_data, sub_data, item, retv, data, collectorVars,
                   escaped, budget, chainVars, fetchedFor, hist>>

\* topological_inventory_data: `except (RetryFailedError, DataMissingError)`.
topological_inventory_data_except ==
    /\ pc = "topological_inventory_data_except"
    /\ METRICS' = inc(METRICS, "get_errors")
    /\ pc' = "worker_after"
    /\ UNCHANGED <<cfgVars, source_id, runner, threads, httpVars, resp,
                   all_data, sub_data, item, retv, data, ent, collectorVars,
                   escaped, budget, chainVars, fetchedFor, hist>>

\* topological_inventory_data sending the payload again after a failed POST.
topological_inventory_data_post_again ==
    /\ pc = "topological_inventory_data_post"
    /\ IF rstate = "raised"
       THEN /\ METRICS' = inc(METRICS, "post_errors")
            /\ Request("post", "post", 0, headers, call.json,
                       "topological_inventory_data_post")
            /\ hist' = [hist EXCEPT !.posts = @ + 1]
       ELSE /\ METRICS' = inc(inc(METRICS, "post_successes"), "data_size")
            /\ pc' = "worker_after"
            /\ UNCHANGED <<httpVars, hist>>
    /\ UNCHANGED <<cfgVars, source_id, runner, threads, resp, all_data,
                   sub_data, item, retv, data, ent, collectorVars, escaped,
                   budget, chainVars, fetchedFor>>

\* topological_inventory_data after the POST.
topological_inventory_data_post ==
    /\ pc = "topological_inventory_data_post"
    /\ METRICS' = inc(inc(METRICS, IF rstate = "raised" THEN "post_errors"
                                                         ELSE "post_successes"),
                      "data_size")
    /\ pc' = "worker_after"
    /\ UNCHANGED <<cfgVars, source_id, runner, threads, httpVars, resp,
                   all_data, sub_data, item, retv, data, ent, collectorVars,
                   escaped, budget, chainVars, fetchedFor, hist>>

\* worker, up to the tenant loop: discover the tenants, or take the job's.
worker ==
    /\ pc = "worker"
    /\ IF ALL_TENANTS
       THEN /\ fetch' = [kind |-> "tenants", item |-> 0,
                         headers |-> ("x-rh-identity" :> acct_info.b64_identity)]
            /\ pc' = "_collect_data"
            /\ UNCHANGED <<tenants, tix>>
       ELSE /\ tenants' = <<create_tenant(acct_info.account_id)>>
            /\ tix' = 1
            /\ pc' = "worker_loop"
            /\ UNCHANGED fetch
    /\ UNCHANGED <<cfgVars, source_id, runner, threads, httpVars, resp,
                   all_data, sub_data, item, retv, data, ent, processed, log,
                   METRICS, escaped, budget, chainVars, fetchedFor, hist>>

\* worker after the discovery: one Tenant per row.
worker_tenants ==
    /\ pc = "worker_tenants"
    /\ tenants' = [i \in 1..Len(retv) |-> create_tenant(retv[i]["external_tenant"])]
    /\ tix' = 1
    /\ pc' = "worker_loop"
    /\ UNCHANGED <<cfgVars, source_id, runner, threads, httpVars, resp,
                   all_data, sub_data, item, retv, data, ent, processed, log,
                   fetch, METRICS, escaped, budget, chainVars, fetchedFor, hist>>

\* worker: `for tenant in tenants`, calling topological_inventory_data.
worker_loop ==
    /\ pc = "worker_loop"
    /\ IF tix <= Len(tenants)
       THEN /\ pc' = "topological_inventory_data"
            /\ hist' = [NoHist EXCEPT !.errors0 = METRICS.get_errors,
                                      !.post_errors0 = METRICS.post_errors]
       ELSE /\ pc' = "done"
            /\ UNCHANGED hist
    /\ UNCHANGED <<cfgVars, source_id, runner, threads, httpVars, resp,
                   all_data, sub_data, item, retv, data, ent, collectorVars,
                   METRICS, escaped, budget, chainVars, fetchedFor>>

\* worker marking only the tenants whose pipeline did not abort.
worker_after_unless_aborted ==
    /\ pc = "worker_after"
    /\ processed' = IF hist.empty \/ hist.failed THEN processed
                    ELSE Append(processed, tenants[tix].account_number)
    /\ log' = Append(log, [account_number |-> tenants[tix].account_number,
                           posts |-> hist.posts,
                           aborted |-> hist.empty \/ hist.failed,
                           collected |-> DOMAIN data])
    /\ tix' = tix + 1
    /\ pc' = "worker_loop"
    /\ data' = <<>> /\ ent' = 0 /\ retv' = <<>> /\ all_data' = <<>>
    /\ sub_data' = <<>> /\ item' = 0 /\ fetch' = NoFetch
    /\ call' = NoCall /\ attempt' = 0 /\ rstate' = "idle" /\ resp' = NoResp
    /\ outcomes' = <<>> /\ served' = <<>> /\ pageNo' = 0 /\ succ0' = 0
    /\ tries' = 0
    /\ fetchedFor' = <<>> /\ hist' = NoHist
    /\ UNCHANGED <<cfgVars, source_id, runner, threads, tenants, METRICS,
                   escaped, budget>>

\* worker after topological_inventory_data returned: utils.set_processed.
\* The locals of the call that returned are gone, and its history is summed
\* up in the log.
worker_after ==
    /\ pc = "worker_after"
    /\ processed' = Append(processed, tenants[tix].account_number)
    /\ log' = Append(log, [account_number |-> tenants[tix].account_number,
                           posts |-> hist.posts,
                           aborted |-> hist.empty \/ hist.failed,
                           collected |-> DOMAIN data])
    /\ tix' = tix + 1
    /\ pc' = "worker_loop"
    /\ data' = <<>> /\ ent' = 0 /\ retv' = <<>> /\ all_data' = <<>>
    /\ sub_data' = <<>> /\ item' = 0 /\ fetch' = NoFetch
    /\ call' = NoCall /\ attempt' = 0 /\ rstate' = "idle" /\ resp' = NoResp
    /\ outcomes' = <<>> /\ served' = <<>> /\ pageNo' = 0 /\ succ0' = 0
    /\ tries' = 0
    /\ fetchedFor' = <<>> /\ hist' = NoHist
    /\ UNCHANGED <<cfgVars, source_id, runner, threads, tenants, METRICS,
                   escaped, budget>>

\* ------------------------------------------------------------ the machine
NoMetrics == [gets |-> 0, get_successes |-> 0, get_errors |-> 0, posts |-> 0,
              post_successes |-> 0, post_errors |-> 0, data_size |-> 0]

\* The state when a job arrives, the query plan being one of `plans`.
InitWith(plans) ==
    /\ NAME \in {"worker_clustering", "worker_topology", "worker"}
    /\ ALL_TENANTS \in (IF NAME = "worker" THEN BOOLEAN ELSE {FALSE})
    /\ APP_CONFIG \in (IF NAME = "worker_clustering" THEN {<<>>} ELSE plans)
    /\ source_id \in (IF NAME = "worker" THEN {"source-1"} ELSE {"", "source-1"})
    /\ pc = IF NAME = "worker" THEN "worker" ELSE "download_job"
    /\ runner = "caller"
    /\ threads = <<>>
    /\ call = NoCall
    /\ attempt = 0
    /\ rstate = "idle"
    /\ resp = NoResp
    /\ all_data = <<>>
    /\ sub_data = <<>>
    /\ item = 0
    /\ retv = <<>>
    /\ fetch = NoFetch
    /\ data = <<>>
    /\ ent = 0
    /\ tenants = <<>>
    /\ tix = 0
    /\ METRICS = NoMetrics
    /\ escaped = "none"
    /\ processed = <<>>
    /\ log = <<>>
    /\ pageNo = 0
    /\ budget = MaxData
    /\ outcomes = <<>>
    /\ served = <<>>
    /\ succ0 = 0
    /\ tries = 0
    /\ fetchedFor = <<>>
    /\ hist = NoHist

Init == InitWith(Configs)

Next ==
    \/ download_job
    \/ Thread_start
    \/ Thread_run
    \/ _retryable
    \/ worker_clustering
    \/ worker_clustering_get
    \/ worker_clustering_post
    \/ worker_topology
    \/ query_main_collection
    \/ query_main_collection_page
    \/ query_sub_collection
    \/ query_sub_collection_page
    \/ worker_topology_store
    \/ worker_topology_except
    \/ worker_topology_post
    \/ retryable
    \/ worker
    \/ worker_tenants
    \/ worker_loop
    \/ worker_after
    \/ topological_inventory_data
    \/ topological_inventory_data_result
    \/ topological_inventory_data_except
    \/ topological_inventory_data_post
    \/ _query_main_collection
    \/ _query_sub_collection
    \/ _query_sub_collection_item
    \/ _collect_data
    \/ _collect_data_page

Spec == Init /\ [][Next]_vars

\* The same machine when the running thread is scheduled and every HTTP
\* attempt returns: a step that can be taken is eventually taken.  A fetch is
\* the same code for every tenant: in broadcast mode the plans of at most one
\* entity are run, the others in single-tenant mode and by worker_topology.
FairInit == Init /\ (ALL_TENANTS => Len(APP_CONFIG) <= 1)

FairSpec == FairInit /\ [][Next]_vars /\ WF_vars(Next)

\* The same machine for every query plan of Plans.
PlanInit == InitWith(Plans)

PlanSpec == PlanInit /\ [][Next]_vars

\* ------------------------------------------------------------ properties
FromDownloadJob == NAME \in {"worker_clustering", "worker_topology"}

\* Positions: after a page of a fetch, in an except clause of a query, after
\* the POST, and after the job/tenant pipeline has returned to its caller.
PageLabels ==
    {"_collect_data_page", "query_main_collection_page",
     "query_sub_collection_page"}
ExceptLabels == {"topological_inventory_data_except", "worker_topology_except"}
PostLabels ==
    {"topological_inventory_data_post", "worker_topology_post",
     "worker_clustering_post"}
PipelineLabels == {"worker_after", "Thread", "done"}

\* The selected worker of download_job is executing.
PipelineRunning ==
    FromDownloadJob /\ pc \notin {"download_job", "Thread", "done", "raised"}

\* A paginated fetch (_collect_data, query_main_collection) has just returned.
FetchReturned ==
    \/ pc \in {"worker_tenants", "_query_sub_collection_item"}
    \/ /\ pc \in {"topological_inventory_data_result", "worker_topology_store"}
       /\ ~TruthyStr(QUERIES[APP_CONFIG[ent]].sub_collection)

\* A sub-collection query has just returned.
SubQueryReturned ==
    /\ pc \in {"topological_inventory_data_result", "worker_topology_store"}
    /\ TruthyStr(QUERIES[APP_CONFIG[ent]].sub_collection)

\* C1: download_job is fire-and-forget: whenever the selected worker is
\* executing, it does so on a thread that download_job has started with that
\* worker as its target, not on the caller's thread, and no exception of the
\* pipeline reaches the caller.
C1_FireAndForget ==
    FromDownloadJob =>
        /\ PipelineRunning =>
              /\ runner # "caller"
              /\ \E i \in DOMAIN threads : threads[i].target = NAME
        /\ escaped = "none"

\* C2: a call of _retryable makes at most MAX_RETRIES attempts, makes none
\* after a successful one, returns the response of that first successful
\* attempt, and raises exactly when MAX_RETRIES attempts have all failed.
C2_Retryable ==
    (FromDownloadJob /\ rstate # "idle") =>
        /\ Len(outcomes) <= MAX_RETRIES
        /\ \A i \in 1..(Len(outcomes) - 1) : outcomes[i] = "fail"
        /\ rstate = "pending" =>
              /\ Len(outcomes) = attempt /\ attempt < MAX_RETRIES
              /\ \A i \in DOMAIN outcomes : outcomes[i] = "fail"
        /\ rstate = "returned" =>
              /\ outcomes # <<>> /\ outcomes[Len(outcomes)] = "ok"
              /\ resp.attempt = Len(outcomes) - 1
        /\ rstate = "raised" <=>
              /\ Len(outcomes) = MAX_RETRIES
              /\ \A i \in DOMAIN outcomes : outcomes[i] = "fail"

\* C2 witness: _retryable failed twice and returned the third response.
C2_Witness ==
    /\ FromDownloadJob
    /\ rstate = "returned"
    /\ outcomes = <<"fail", "fail", "ok">>
    /\ resp.attempt = 2

\* C3: when a paginated fetch returns, it returns the rows of the k >= 1 pages
\* served to it, in page-then-row order, and get_successes has grown by k.
C3_FetchAll ==
    FetchReturned =>
        /\ retv = served
        /\ pageNo >= 1
        /\ METRICS.get_successes = succ0 + pageNo

\* C3 witness: _collect_data returned the rows of two pages, two on the first.
C3_Witness ==
    /\ NAME = "worker"
    /\ FetchReturned
    /\ pageNo = 2
    /\ Len(retv) >= 3
    /\ retv = served

\* C4: when a sub-collection query returns, it returns one row per row served
\* to it, each carrying under the foreign key the id of the parent row it was
\* fetched for.
C4_ForeignKeys ==
    SubQueryReturned =>
        /\ Len(retv) = Len(fetchedFor)
        /\ \A i \in DOMAIN retv :
              /\ QUERIES[APP_CONFIG[ent]].foreign_key \in DOMAIN retv[i]
              /\ retv[i][QUERIES[APP_CONFIG[ent]].foreign_key] = fetchedFor[i]

\* The entity names of the query plan.
Entities == {APP_CONFIG[i] : i \in DOMAIN APP_CONFIG}

\* C5: once an entity query of topological_inventory_data has resolved to
\* zero rows, no POST is issued for that job/tenant and get_errors is
\* incremented exactly once (by the except clause) before the pipeline returns.
C5_NoPartialForward ==
    (NAME = "worker" /\ hist.empty) =>
        /\ hist.posts = 0
        /\ hist.postAttempts = 0
        /\ pc \in {"topological_inventory_data_except"} \cup PipelineLabels
        /\ METRICS.get_errors =
              hist.errors0 + (IF pc = "topological_inventory_data_except"
                              THEN 0 ELSE 1)

\* C5 witness: the sub-collection resolved to zero rows after the main
\* collection had been stored, and the pipeline returned without a POST.
C5_Witness ==
    /\ NAME = "worker"
    /\ hist.empty
    /\ pc = "worker_after"
    /\ "container_nodes" \in DOMAIN data
    /\ hist.posts = 0

\* C6: in broadcast mode, once the tenants are discovered, worker never
\* raises and processes them in order whatever the earlier ones' outcomes: a
\* tenant whose pipeline aborted (zero rows or exhausted retries) got no POST,
\* a tenant whose queries all succeeded got its POST, and worker ends only
\* after the last tenant.
C6_IsolateAndContinue ==
    (NAME = "worker" /\ ALL_TENANTS /\ tenants # <<>>) =>
        /\ escaped = "none"
        /\ pc # "raised"
        /\ Len(log) <= Len(tenants)
        /\ processed = [i \in 1..Len(log) |-> tenants[i].account_number]
        /\ \A i \in DOMAIN log :
              /\ log[i].account_number = tenants[i].account_number
              /\ log[i].aborted => log[i].posts = 0
              /\ (~log[i].aborted /\ APP_CONFIG # <<>>) =>
                    log[i].posts = 1 /\ log[i].collected = Entities
        /\ pc = "done" => Len(log) = Len(tenants)

\* C6 witness: of two tenants the first aborted and the second was forwarded.
C6_Witness ==
    /\ NAME = "worker" /\ ALL_TENANTS
    /\ pc = "done"
    /\ Len(log) = 2
    /\ log[1].aborted /\ log[1].posts = 0
    /\ ~log[2].aborted /\ log[2].posts = 1

\* C7: no RetryFailedError or DataMissingError leaves worker.
C7_NothingEscapes ==
    NAME = "worker" => escaped \notin {"RetryFailedError", "DataMissingError"}

\* C8: a job/tenant pipeline makes at most one POST call, of at most
\* MAX_RETRIES attempts, and only with every entity of the plan collected;
\* when all its attempts failed, post_errors is incremented once and the
\* pipeline returns without an exception.
C8_ForwardOnce ==
    /\ hist.posts <= 1
    /\ hist.postAttempts <= MAX_RETRIES
    /\ hist.postAttempts > 0 => hist.posts = 1
    /\ (pc = "http" /\ call.method = "post") => hist.posts = 1
    /\ (hist.posts = 1 /\ NAME # "worker_clustering") =>
          /\ call.method = "post"
          /\ DOMAIN call.json.data = Entities
    /\ (hist.posts = 1 /\ rstate = "raised") =>
          /\ hist.postAttempts = MAX_RETRIES
          /\ escaped = "none"
          /\ pc \in PostLabels \cup PipelineLabels
          /\ pc \in PipelineLabels =>
                METRICS.post_errors = hist.post_errors0 + 1

\* C8 witness: the POST of a tenant's payload failed three times and
\* topological_inventory_data returned.
C8_Witness ==
    /\ NAME = "worker"
    /\ pc = "worker_after"
    /\ hist.posts = 1
    /\ hist.postAttempts = 3
    /\ rstate = "raised"
    /\ METRICS.post_errors = hist.post_errors0 + 1

\* C9: once the retries of a page are exhausted, the fetch returns nothing:
\* control goes to an except clause or out of worker, never to the code after
\* the fetch; the entity being fetched is not stored in the payload, no tenant
\* comes out of a failed discovery, and nothing is POSTed.
C9_NoPartialResult ==
    hist.failed =>
        /\ hist.posts = 0
        /\ ~FetchReturned /\ ~SubQueryReturned
        /\ pc \in PageLabels \cup ExceptLabels \cup PipelineLabels \cup {"raised"}
        /\ pc \in PageLabels => rstate = "raised"
        /\ IF fetch.kind = "tenants"
           THEN tenants = <<>> /\ log = <<>>
           ELSE APP_CONFIG[ent] \notin DOMAIN data

\* C9 witness: _collect_data had fetched a page with rows when a later page
\* exhausted its retries, and the tenant's pipeline returned.
C9_Witness ==
    /\ NAME = "worker"
    /\ hist.failed
    /\ hist.partial # <<>>
    /\ pc = "worker_after"
    /\ data = <<>>

\* C10: every request of a topology pipeline made for a tenant (the page GETs
\* of its queries and the forwarding POST) carries that tenant's x-rh-identity.
C10_IdentityHeader ==
    (pc = "http" /\ NAME \in {"worker", "worker_topology"}
                 /\ call.kind \in {"main", "sub", "post"}) =>
        /\ "x-rh-identity" \in DOMAIN call.headers
        /\ call.headers["x-rh-identity"] =
              IF NAME = "worker"
              THEN B64(rh_identity(tenants[tix].account_number))
              ELSE b64_identity

\* C11: every forwarding POST, of worker_clustering, of worker_topology and of
\* topological_inventory_data, carries a source_id header holding the job's
\* source id and an x-rh-identity header.
C11_ForwardHeaders ==
    (pc = "http" /\ call.method = "post") =>
        /\ "source_id" \in DOMAIN call.headers
        /\ call.headers["source_id"] = source_id
        /\ "x-rh-identity" \in DOMAIN call.headers

\* C12: gets counts every HTTP attempt of a GET.  A job of download_job
\* starts with gets = 0, so when its first GET call has returned or raised,
\* gets is the number of attempts that call made (3 after two failures and a
\* success), and when its first paginated fetch has returned k pages, gets is
\* at least k.
C12_CountAttempts ==
    /\ (NAME = "worker_clustering" /\ pc = "worker_clustering_get") =>
          METRICS.gets = Len(outcomes)
    /\ (NAME = "worker_topology" /\ pc = "worker_topology_store" /\ ent = 1
            /\ FetchReturned) =>
          METRICS.gets >= pageNo

\* The collections served in chains of pages.
ChainKinds == {"tenants", "main", "sub"}

\* A paginated fetch is in progress: about to request its first page, waiting
\* for a page, or looking at the outcome of a page request.
Fetching ==
    \/ pc \in {"_collect_data", "query_main_collection", "query_sub_collection"}
    \/ pc = "http" /\ call.kind \in ChainKinds
    \/ pc \in PageLabels

\* C13: page traversal terminates.  The service serves chains of at most
\* MaxPages pages and every attempt returns; then a paginated fetch in
\* progress eventually returns or raises, having made at most MAX_RETRIES
\* attempts per page requested so far, and it requests a further page only
\* when the last page it received carries a next pointer.
C13_Terminates ==
    /\ []((pc = "http" \/ pc \in PageLabels) /\ call.kind \in ChainKinds =>
             /\ pageNo <= MaxPages
             /\ tries <= MAX_RETRIES * (IF rstate = "returned"
                                        THEN pageNo ELSE pageNo + 1)
             /\ (rstate # "returned" => pageNo + 1 <= MaxPages))
    /\ []((pc = "http" /\ call.kind \in ChainKinds /\ pageNo > 0) => resp.next)
    /\ (Fetching ~> ~Fetching)

\* C13 witness: a fetch received the second and last page of its chain at the
\* sixth attempt, each page having failed twice.
C13_Witness ==
    /\ pc \in PageLabels
    /\ rstate = "returned"
    /\ ~resp.next
    /\ pageNo = 2
    /\ tries = 6

\* The pipeline of the tenant being processed has aborted: an entity resolved
\* to zero rows, or a fetch exhausted its retries.
Aborted == NAME = "worker" /\ tenants # <<>> /\ (hist.empty \/ hist.failed)

\* C14: once a tenant's pipeline has aborted, topological_inventory_data only
\* returns: no request is in flight and no query is started, the failing
\* entity and those declared after it are not in the payload, no POST is
\* made, and the pipeline runs once per tenant (a tenant's pipeline only runs
\* when the log holds the tenants before it and no more).
C14_AbortIsFinal ==
    /\ Aborted =>
          /\ pc \in {"_collect_data_page", "topological_inventory_data_except",
                     "worker_after"}
          /\ pc = "_collect_data_page" => rstate = "raised"
          /\ hist.posts = 0 /\ hist.postAttempts = 0
          /\ \A i \in DOMAIN APP_CONFIG :
                i >= ent => APP_CONFIG[i] \notin DOMAIN data
    /\ (NAME = "worker" /\ tix >= 1) => Len(log) = tix - 1

\* C14 witness: the first of two entities aborted the pipeline, which returned.
C14_Witness ==
    /\ Aborted
    /\ pc = "worker_after"
    /\ Len(APP_CONFIG) = 2
    /\ ent = 1
    /\ hist.posts = 0

\* The entity being queried is a sub-collection.
SubQuery == ent >= 1 /\ TruthyStr(QUERIES[APP_CONFIG[ent]].sub_collection)

\* C15: once the fetch for a parent row (the item-th) of a sub-collection
\* query has exhausted its retries, the query raises: control is in the
\* failing fetch, in the except clause or back in the caller of the pipeline,
\* never in a request or after the query; the rows served to the query were
\* all requested for that parent or one before it, the entity is not in the
\* payload and nothing is POSTed.
C15_SubFetchAllOrNothing ==
    (hist.failed /\ SubQuery) =>
        /\ pc \in PageLabels \cup ExceptLabels \cup PipelineLabels
        /\ pc \in PageLabels => rstate = "raised"
        /\ item \in 1..Len(collection(ent))
        /\ \A i \in DOMAIN fetchedFor :
              \E m \in 1..item : fetchedFor[i] = collection(ent)[m]["id"]
        /\ APP_CONFIG[ent] \notin DOMAIN data
        /\ hist.posts = 0 /\ hist.postAttempts = 0

\* C15 witness: rows had been fetched for the first parent when the fetch for
\* the second exhausted its retries, and worker_topology returned.
C15_Witness ==
    /\ NAME = "worker_topology"
    /\ hist.failed /\ SubQuery
    /\ item = 2
    /\ fetchedFor # <<>>
    /\ pc = "Thread"
    /\ hist.posts = 0

\* The rows the plan has collected for the main collection of the
\* sub-collection entity k: those of the earlier entity that queried it.
CollectedFor(k) ==
    LET j == CHOOSE j \in 1..(k - 1) :
                 /\ QUERIES[APP_CONFIG[j]].main_collection =
                       QUERIES[APP_CONFIG[k]].main_collection
                 /\ ~TruthyStr(QUERIES[APP_CONFIG[j]].sub_collection)
    IN data[APP_CONFIG[j]]

\* C16: in topological_inventory_data, for every plan of Plans, a
\* sub-collection query that has started iterates the rows the earlier entity
\* collected for its main collection: it raises nothing, each fetch is for
\* the id of the item-th of those rows, and it returns after the last of them.
C16_SubIteratesMain ==
    (NAME = "worker" /\ SubQuery /\ pc # "_query_sub_collection") =>
        /\ escaped # "KeyError"
        /\ fetch.kind = "sub" =>
              /\ item \in 1..Len(CollectedFor(ent))
              /\ fetch.item = CollectedFor(ent)[item]["id"]
        /\ (pc = "topological_inventory_data_result"
                /\ CollectedFor(ent) # <<>>) =>
              item = Len(CollectedFor(ent))

\* C17: worker_topology never POSTs a payload in which an entity maps to no
\* rows: once an entity query has returned zero rows, it makes no POST.
C17_NoEmptyEntityForwarded ==
    NAME = "worker_topology" =>
        /\ (pc = "http" /\ call.method = "post") =>
              \A e \in DOMAIN call.json.data : call.json.data[e] # <<>>
        /\ hist.empty => hist.posts = 0

\* A row of entity e of the payload as the service served it: without the
\* foreign key the sub-collection query has set.
AsServed(row, e) ==
    [f \in DOMAIN row \ {QUERIES[e].foreign_key} |-> row[f]]

\* C18: from the forwarding POST of topological_inventory_data on, the payload
\* sent has the job's source id and is the payload built, which does not
\* change; it maps exactly the entities of the plan, each to the rows the
\* service served to its query in this run, in order and at least one.
C18_Payload ==
    (NAME = "worker" /\ hist.posts = 1) =>
        /\ call.method = "post"
        /\ call.json.id = source_id
        /\ call.json.data = data
        /\ DOMAIN data = Entities
        /\ DOMAIN hist.rows = Entities
        /\ \A e \in Entities :
              /\ data[e] # <<>>
              /\ Len(data[e]) = Len(hist.rows[e])
              /\ \A i \in DOMAIN data[e] :
                    AsServed(data[e][i], e) = hist.rows[e][i]

\* C18 witness: the payload of a main collection and its sub-collection is
\* being POSTed.
C18_Witness ==
    /\ NAME = "worker"
    /\ pc = "http" /\ call.method = "post"
    /\ hist.posts = 1
    /\ Len(APP_CONFIG) = 2
    /\ Len(data["container_nodes"]) = 2
    /\ data["container_nodes_tags"] # <<>>

\* The GET of the source URL has failed on all its attempts.
SourceFailed ==
    /\ NAME = "worker_clustering"
    /\ \/ call.kind = "source" /\ rstate = "raised"
       \/ METRICS.get_errors > 0

\* The GET of the source URL has succeeded and the worker has gone on.
SourceFetched == NAME = "worker_clustering" /\ METRICS.get_successes = 1

\* C19 as claimed: in content mode, when the GET has failed on all 3
\* attempts, no POST is made, get_errors is incremented once as the worker
\* returns, and the worker returns normally; when the GET has succeeded, one
\* POST call, and no more, is made and nothing is raised.
C19_ContentMode ==
    /\ SourceFailed =>
          /\ call.kind = "source" /\ Len(outcomes) = MAX_RETRIES
          /\ hist.posts = 0 /\ hist.postAttempts = 0 /\ METRICS.posts = 0
          /\ pc \in {"worker_clustering_get", "Thread", "done"}
          /\ METRICS.get_errors = IF pc = "worker_clustering_get" THEN 0 ELSE 1
          /\ escaped = "none"
    /\ SourceFetched =>
          /\ hist.posts = 1
          /\ call.method = "post"
          /\ METRICS.get_errors = 0
          /\ escaped = "none"

\* C19 amended: as claimed when the GET has failed; when it has succeeded,
\* one POST call is made if custom_parser.parse returns, and if it raises no
\* POST call is made and the exception leaves the worker.
C19_ContentModeParsed ==
    /\ SourceFailed =>
          /\ call.kind = "source" /\ Len(outcomes) = MAX_RETRIES
          /\ hist.posts = 0 /\ hist.postAttempts = 0 /\ METRICS.posts = 0
          /\ pc \in {"worker_clustering_get", "Thread", "done"}
          /\ METRICS.get_errors = IF pc = "worker_clustering_get" THEN 0 ELSE 1
          /\ escaped = "none"
    /\ SourceFetched =>
          /\ METRICS.get_errors = 0
          /\ IF escaped = "none"
             THEN hist.posts = 1 /\ call.method = "post"
             ELSE /\ escaped = "ParseFailed" /\ pc = "raised"
                  /\ hist.posts = 0 /\ hist.postAttempts = 0

\* C19 witness: the GET failed three times and worker_clustering returned
\* with one get_errors and no POST.
C19_Witness ==
    /\ SourceFailed
    /\ outcomes = <<"fail", "fail", "fail">>
    /\ pc = "Thread"
    /\ METRICS.get_errors = 1
    /\ METRICS.posts = 0

\* The pipeline is between posts.inc() and the return of its POST call.
InPost == (pc = "http" /\ call.method = "post") \/ pc \in PostLabels

\* C20: whenever the pipeline is not between incrementing posts and the
\* return of its POST call, posts = post_successes + post_errors.
C20_PostCounters ==
    ~InPost =>
        METRICS.posts = METRICS.post_successes + METRICS.post_errors

\* C21: worker marks each tenant processed once, between the return of its
\* pipeline and the start of the next one: while the pipeline of the tix-th
\* tenant runs or has just returned, the tenants marked are those before it,
\* once each and in order, whatever their pipelines' outcomes (the log has an
\* entry for each, aborted or not), and when worker is done every tenant is
\* marked.
C21_ProcessedOnce ==
    (NAME = "worker" /\ tix >= 1) =>
        /\ Len(processed) = tix - 1
        /\ Len(processed) = Len(log)
        /\ Len(processed) <= Len(tenants)
        /\ \A i \in DOMAIN processed :
              processed[i] = tenants[i].account_number
        /\ pc = "worker_loop" \/ pc = "done" \/ tix <= Len(tenants)
        /\ pc = "done" => Len(processed) = Len(tenants)

\* C21 witness: worker is done with two tenants, both marked in order: the
\* pipeline of the first aborted and the forward of the second failed.
C21_Witness ==
    /\ NAME = "worker" /\ ALL_TENANTS
    /\ pc = "done"
    /\ processed = <<0, 1>>
    /\ log[1].aborted
    /\ log[2].posts = 1
    /\ METRICS.post_errors = 1

====
